---- MODULE Spec2Model ----
(***************************************************************************)
(* Nepal Banking Data Dashboard (src/a.py): a Streamlit script that loads  *)
(* one table (Particulars, Month, Rs), filters it by two multiselects and  *)
(* derives summaries, a trend pivot and a month-to-month comparison.       *)
(*                                                                         *)
(* A table is a sequence of rows (records).  A float is a record           *)
(* [k, n, d]: k = "num" is the rational n/d in lowest terms (d > 0),       *)
(* k = "nan" is NaN (pandas' "missing"), k = "inf" is +inf (n = 1) or      *)
(* -inf (n = -1).  Finite floats are modelled exactly (no rounding).       *)
(* A string cell of the workbook is a sequence of one-character strings.   *)
(*                                                                         *)
(* Spec is a session: every widget change reruns the script from its first *)
(* line.  A run ends at line 250, where sort_values raises KeyError, so    *)
(* the second and third tab are never reached in a run.  SpecLoad is the   *)
(* normaliser on workbooks with every kind of Rs cell; SpecTrend and       *)
(* SpecDetail are the second and the third tab taken as functions of the   *)
(* loaded table and of their own widget.                                   *)
(***************************************************************************)
EXTENDS Integers, Sequences, FiniteSets, TLC

VARIABLES raw, cache, df, pc, raised,
          selected_particulars, selected_months, filtered_df, metrics,
          monthly_summary,
          trend_particulars, pivot_df, pct_change_df,
          selected_particular, trend, month_comparison,
          display_month_comparison, summary_df, stats_df

vars == <<raw, cache, df, pc, raised,
          selected_particulars, selected_months, filtered_df, metrics,
          monthly_summary,
          trend_particulars, pivot_df, pct_change_df,
          selected_particular, trend, month_comparison,
          display_month_comparison, summary_df, stats_df>>

(***************************************************************************)
(* Bounds                                                                  *)
(***************************************************************************)
MaxRows == 2
MaxStrLen == 2
MaxTrendRows == 3
MaxDetailRows == 3
MaxMonthRows == 4

(***************************************************************************)
(* Floats                                                                  *)
(***************************************************************************)
Abs(x) == IF x < 0 THEN -x ELSE x

RECURSIVE GCD(_, _)
GCD(a, b) == IF b = 0 THEN a ELSE GCD(b, a % b)

NaN == [k |-> "nan", n |-> 0, d |-> 1]
PosInf == [k |-> "inf", n |-> 1, d |-> 1]
NegInf == [k |-> "inf", n |-> -1, d |-> 1]

\* the float n/d, d # 0, in lowest terms
Rat(n, d) ==
    LET g == GCD(Abs(n), Abs(d))
        s == IF d < 0 THEN -1 ELSE 1
    IN  [k |-> "num", n |-> (s * n) \div g, d |-> Abs(d) \div g]

F(n) == [k |-> "num", n |-> n, d |-> 1]

isna(x) == x.k = "nan"

Sign(x) == IF x.n > 0 THEN 1 ELSE IF x.n < 0 THEN -1 ELSE 0

\* IEEE-754 addition, subtraction, multiplication, division
FAdd(a, b) ==
    IF isna(a) \/ isna(b) THEN NaN
    ELSE IF a.k = "inf" /\ b.k = "inf" THEN (IF a.n = b.n THEN a ELSE NaN)
    ELSE IF a.k = "inf" THEN a
    ELSE IF b.k = "inf" THEN b
    ELSE Rat(a.n * b.d + b.n * a.d, a.d * b.d)

FNeg(a) == IF a.k = "nan" THEN NaN ELSE [a EXCEPT !.n = -a.n]

FSub(a, b) == FAdd(a, FNeg(b))

FMul(a, b) ==
    IF isna(a) \/ isna(b) THEN NaN
    ELSE IF a.k = "inf" \/ b.k = "inf"
         THEN (IF Sign(a) * Sign(b) = 0 THEN NaN
               ELSE IF Sign(a) * Sign(b) > 0 THEN PosInf ELSE NegInf)
    ELSE Rat(a.n * b.n, a.d * b.d)

FDiv(a, b) ==
    IF isna(a) \/ isna(b) THEN NaN
    ELSE IF a.k = "inf" /\ b.k = "inf" THEN NaN
    ELSE IF a.k = "inf"
         THEN (IF Sign(a) * (IF b.n < 0 THEN -1 ELSE 1) > 0 THEN PosInf ELSE NegInf)
    ELSE IF b.k = "inf" THEN F(0)
    ELSE IF b.n = 0
         THEN (IF a.n = 0 THEN NaN ELSE IF a.n > 0 THEN PosInf ELSE NegInf)
    ELSE Rat(a.n * b.d, a.d * b.n)

(***************************************************************************)
(* Workbook cells and tables                                               *)
(***************************************************************************)
\* a numeric cell, a text cell, an empty cell (read as NaN), pd.NA
NumCell(v) == [t |-> "num", v |-> v, s |-> <<>>]
StrCell(s) == [t |-> "str", v |-> 0, s |-> s]
BlankCell == [t |-> "nan", v |-> 0, s |-> <<>>]
NACell == [t |-> "NA", v |-> 0, s |-> <<>>]

DASH == <<"-">>

RawRow(p, m, c) == [Particulars |-> p, Month |-> m, Rs |-> c]

RECURSIVE SeqsUpTo(_, _)
SeqsUpTo(S, n) ==
    IF n = 0 THEN {<<>>}
    ELSE LET shorter == SeqsUpTo(S, n - 1)
         IN  shorter \cup {Append(s, x) : s \in {t \in shorter : Len(t) = n - 1}, x \in S}

Range(s) == {s[i] : i \in 1..Len(s)}

Column(tbl, col) == [i \in 1..Len(tbl) |-> tbl[i][col]]

(***************************************************************************)
(* load_data                                                               *)
(***************************************************************************)
\* Series.replace('-', pd.NA), one cell
replace(cell, to_replace, value) ==
    IF cell.t = "str" /\ cell.s = to_replace THEN value ELSE cell

Digits == {"0", "1", "2", "3", "4", "5", "6", "7", "8", "9"}

DigitVal(c) ==
    CASE c = "0" -> 0 [] c = "1" -> 1 [] c = "2" -> 2 [] c = "3" -> 3
      [] c = "4" -> 4 [] c = "5" -> 5 [] c = "6" -> 6 [] c = "7" -> 7
      [] c = "8" -> 8 [] c = "9" -> 9

RECURSIVE DigitsVal(_)
DigitsVal(s) ==
    IF s = <<>> THEN 0
    ELSE 10 * DigitsVal(SubSeq(s, 1, Len(s) - 1)) + DigitVal(s[Len(s)])

AllDigits(s) == s # <<>> /\ \A i \in 1..Len(s) : s[i] \in Digits

\* the text is a decimal integer literal with an optional sign
Parseable(s) ==
    \/ AllDigits(s)
    \/ Len(s) > 1 /\ s[1] = "-" /\ AllDigits(Tail(s))

ParseValue(s) == IF s[1] = "-" THEN -DigitsVal(Tail(s)) ELSE DigitsVal(s)

\* a normaliser that fills what it cannot parse with zero
to_numeric_fill_zero(cell) ==
    CASE cell.t = "num" -> F(cell.v)
      [] cell.t = "str" -> IF Parseable(cell.s) THEN F(ParseValue(cell.s)) ELSE F(0)
      [] OTHER -> F(0)

\* pd.to_numeric(..., errors='coerce'), one cell
to_numeric(cell) ==
    CASE cell.t = "num" -> F(cell.v)
      [] cell.t = "str" -> IF Parseable(cell.s) THEN F(ParseValue(cell.s)) ELSE NaN
      [] OTHER -> NaN

\* Series.unique(): the distinct values in order of first appearance
RECURSIVE unique(_)
unique(s) ==
    IF s = <<>> THEN <<>>
    ELSE LET front == unique(SubSeq(s, 1, Len(s) - 1))
             x == s[Len(s)]
         IN  IF x \in Range(front) THEN front ELSE Append(front, x)

IndexOf(s, x) == CHOOSE i \in 1..Len(s) : s[i] = x

\* a ranking that enumerates the rows instead of the distinct labels
month_order_by_row(tbl) ==
    LET s == Column(tbl, "Month")
    IN  [m \in Range(s) |-> (CHOOSE i \in 1..Len(s) :
                                /\ s[i] = m
                                /\ \A j \in 1..Len(s) : s[j] = m => j <= i) - 1]

\* {month: i for i, month in enumerate(df['Month'].unique())}
month_order(tbl) ==
    LET u == unique(Column(tbl, "Month"))
    IN  [m \in Range(u) |-> IndexOf(u, m) - 1]

load_data(rawtbl) ==
    [i \in 1..Len(rawtbl) |->
        [Particulars |-> rawtbl[i].Particulars,
         Month |-> rawtbl[i].Month,
         Rs |-> to_numeric(replace(rawtbl[i].Rs, DASH, NACell)),
         Month_Num |-> month_order(rawtbl)[rawtbl[i].Month]]]

(***************************************************************************)
(* Display formatting                                                      *)
(***************************************************************************)
\* a displayed string: "N/A", "nan", "inf", "-inf", or a number with two
\* decimals (text = "fixed", cents = the number in hundredths) and a suffix
Text(s) == [text |-> s, cents |-> 0, suffix |-> ""]

\* n/d rounded to the nearest integer, ties to even
RoundHalfEven(n, d) ==
    LET q == n \div d
        r == n % d
    IN  IF 2 * r < d THEN q
        ELSE IF 2 * r > d THEN q + 1
        ELSE IF q % 2 = 0 THEN q ELSE q + 1

\* f"{x:,.2f}" followed by suffix
format_2f(x, suffix) ==
    CASE x.k = "nan" -> [text |-> "nan", cents |-> 0, suffix |-> suffix]
      [] x.k = "inf" -> [text |-> IF x.n > 0 THEN "inf" ELSE "-inf", cents |-> 0, suffix |-> suffix]
      [] OTHER -> [text |-> "fixed", cents |-> RoundHalfEven(100 * x.n, x.d), suffix |-> suffix]

\* lambda x: f"{x:,.2f}" if not pd.isna(x) else "N/A"
format_or_na(x, suffix) == IF ~isna(x) THEN format_2f(x, suffix) ELSE Text("N/A")

(***************************************************************************)
(* Series reductions (pandas skips NaN)                                    *)
(***************************************************************************)
RECURSIVE Series_sum(_)
Series_sum(s) ==
    IF s = <<>> THEN F(0)
    ELSE LET rest == Series_sum(SubSeq(s, 1, Len(s) - 1))
             x == s[Len(s)]
         IN  IF isna(x) THEN rest ELSE FAdd(rest, x)

Series_count(s) == Cardinality({i \in 1..Len(s) : ~isna(s[i])})

Series_mean(s) ==
    IF Series_count(s) = 0 THEN NaN ELSE FDiv(Series_sum(s), F(Series_count(s)))

(***************************************************************************)
(* Labels and their lexicographic order (Python sorted() on str)           *)
(***************************************************************************)
ALL == "All"

Lexicographic == <<"A", "All", "B", "C", "Feb", "Jan", "Mar">>

LexRank(x) == IndexOf(Lexicographic, x)

\* sorted(S, key=key): the elements of S in ascending key order
RECURSIVE SortedBy(_, _)
SortedBy(S, key) ==
    IF S = {} THEN <<>>
    ELSE LET x == CHOOSE y \in S : \A z \in S : key[y] <= key[z]
         IN  <<x>> \o SortedBy(S \ {x}, key)

sorted(S) == SortedBy(S, [x \in S |-> LexRank(x)])

\* DataFrame[DataFrame[col].isin(values)]
isin(tbl, col, values) == SelectSeq(tbl, LAMBDA r : r[col] \in values)

(***************************************************************************)
(* Tab 1: filters, metrics, monthly summary                                *)
(***************************************************************************)
all_particulars(tbl) == {ALL} \cup Range(Column(tbl, "Particulars"))

all_months(tbl) == {ALL} \cup Range(Column(tbl, "Month"))

\* a filter that forgets the month selection
apply_filters_no_months(tbl, particulars, months) ==
    IF ALL \notin particulars THEN isin(tbl, "Particulars", particulars) ELSE tbl

\* a filter that reads an empty selection as "All"
apply_filters_empty_is_all(tbl, particulars, months) ==
    LET f1 == IF particulars # {} /\ ALL \notin particulars
              THEN isin(tbl, "Particulars", particulars) ELSE tbl
    IN  IF months # {} /\ ALL \notin months THEN isin(f1, "Month", months) ELSE f1

\* # Apply filters
apply_filters(tbl, particulars, months) ==
    LET f1 == IF ALL \notin particulars THEN isin(tbl, "Particulars", particulars) ELSE tbl
    IN  IF ALL \notin months THEN isin(f1, "Month", months) ELSE f1

NoMetrics == [records |-> 0, sum |-> NaN, mean |-> NaN,
              total_amount |-> Text(""), average_amount |-> Text("")]

key_metrics(tbl) ==
    LET rs == Column(tbl, "Rs")
    IN  [records |-> Len(tbl),
         sum |-> Series_sum(rs),
         mean |-> Series_mean(rs),
         total_amount |-> format_or_na(Series_sum(rs), ""),
         average_amount |-> format_or_na(Series_mean(rs), "")]

\* filtered_df.groupby('Month')['Rs'].agg(['sum', 'mean', 'count']).reset_index()
groupby_agg(tbl) ==
    LET keys == sorted(Range(Column(tbl, "Month")))
    IN  [g \in 1..Len(keys) |->
            LET rs == Column(isin(tbl, "Month", {keys[g]}), "Rs")
            IN  [Month |-> keys[g], sum |-> Series_sum(rs),
                 mean |-> Series_mean(rs), count |-> Series_count(rs)]]

\* the columns of the frame groupby_agg returns
summary_columns == {"Month", "sum", "mean", "count"}

\* DataFrame.sort_values(by=...) raises KeyError unless by is a column
sort_values_raises(columns, by) == by \notin columns

(***************************************************************************)
(* Tab 2: trend pivot and month-over-month percentage change               *)
(***************************************************************************)
\* sorted(df['Month'].unique().tolist(), key=<Month_Num of the first row>)
months_in_order(tbl) ==
    LET S == Range(Column(tbl, "Month"))
    IN  SortedBy(S, [m \in S |-> isin(tbl, "Month", {m})[1].Month_Num])

\* the rows of a frame reordered by ascending key; key maps Month to a rank
sort_rows(rows, key) ==
    LET order == SortedBy(1..Len(rows), [i \in 1..Len(rows) |-> key[rows[i].Month]])
    IN  [j \in 1..Len(rows) |-> rows[order[j]]]

\* a pivot that fills the cells of absent groups with zero
pivot_cell_fill_zero(tbl, m, p) ==
    LET g == isin(isin(tbl, "Month", {m}), "Particulars", {p})
    IN  Series_sum(Column(g, "Rs"))

\* one cell of pd.pivot_table(..., aggfunc='sum'): the NaN-skipping sum of
\* the group, NaN where the group has no row
pivot_cell(tbl, m, p) ==
    LET g == isin(isin(tbl, "Month", {m}), "Particulars", {p})
    IN  IF g = <<>> THEN NaN ELSE Series_sum(Column(g, "Rs"))

\* pd.pivot_table(trend_df, values='Rs', index='Month', columns='Particulars',
\*                aggfunc='sum').reset_index()
pivot_table(tbl) ==
    LET index == sorted(Range(Column(tbl, "Month")))
        columns == sorted(Range(Column(tbl, "Particulars")))
    IN  [columns |-> columns,
         rows |-> [i \in 1..Len(index) |->
                     [Month |-> index[i],
                      cells |-> [p \in Range(columns) |-> pivot_cell(tbl, index[i], p)]]]]

\* lines 279-290: the pivot, its rows reordered chronologically
trend_pivot(tbl, particulars) ==
    LET months == months_in_order(tbl)
        pivot == pivot_table(isin(tbl, "Particulars", particulars))
        Month_Order == [m \in Range(months) |-> IndexOf(months, m) - 1]
    IN  [pivot EXCEPT !.rows = sort_rows(pivot.rows, Month_Order)]

\* Series.ffill()
RECURSIVE ffill_at(_, _)
ffill_at(s, i) ==
    IF ~isna(s[i]) THEN s[i] ELSE IF i = 1 THEN NaN ELSE ffill_at(s, i - 1)

\* Series.pct_change(): values / values.shift(1) - 1, after a forward fill
\* in the pandas releases whose default fill_method is 'pad'
pct_change(s, pad) ==
    LET filled == IF pad THEN [i \in 1..Len(s) |-> ffill_at(s, i)] ELSE s
    IN  [i \in 1..Len(s) |->
            IF i = 1 THEN NaN ELSE FSub(FDiv(filled[i], filled[i - 1]), F(1))]

\* lines 352-362: one "<particular> % Change" column per pivot column
pct_change_frame(pivot, particulars, pad) ==
    LET cols == SelectSeq(pivot.columns, LAMBDA p : p \in particulars)
        col(p) == pct_change([i \in 1..Len(pivot.rows) |-> pivot.rows[i].cells[p]], pad)
    IN  [columns |-> cols,
         rows |-> [i \in 1..Len(pivot.rows) |->
                     [Month |-> pivot.rows[i].Month,
                      cells |-> [p \in Range(cols) |-> FMul(col(p)[i], F(100))]]]]

(***************************************************************************)
(* Tab 3: one particular in detail                                         *)
(***************************************************************************)
\* the orders DataFrame.sort_values(by) can return: ascending by, rows of
\* equal by in any order (the default sort kind is not stable)
sort_values(tbl, by) ==
    {[j \in 1..Len(tbl) |-> tbl[f[j]]] :
        f \in {g \in [1..Len(tbl) -> 1..Len(tbl)] :
                 /\ \A a, b \in 1..Len(tbl) : a # b => g[a] # g[b]
                 /\ \A a, b \in 1..Len(tbl) : a < b => tbl[g[a]][by] <= tbl[g[b]][by]}}

\* np.arange(n)
arange(n) == [i \in 1..n |-> i - 1]

RECURSIVE FSum(_)
FSum(s) == IF s = <<>> THEN F(0) ELSE FAdd(FSum(SubSeq(s, 1, Len(s) - 1)), s[Len(s)])

\* np.polyfit(x, y, 1) on finite data: the least-squares slope and intercept
polyfit(x, y) ==
    LET n == F(Len(x))
        Sx == FSum([i \in 1..Len(x) |-> F(x[i])])
        Sy == FSum(y)
        Sxy == FSum([i \in 1..Len(x) |-> FMul(F(x[i]), y[i])])
        Sxx == FSum([i \in 1..Len(x) |-> F(x[i] * x[i])])
        slope == FDiv(FSub(FMul(n, Sxy), FMul(Sx, Sy)), FSub(FMul(n, Sxx), FMul(Sx, Sx)))
    IN  <<slope, FDiv(FSub(Sy, FMul(slope, Sx)), n)>>

\* np.poly1d(z)(x)
poly1d(z, x) == [i \in 1..Len(x) |-> FAdd(FMul(z[1], F(x[i])), z[2])]

\* lines 436-453.  The fit is attempted when the series has more than two
\* rows; with a NaN in y, polyfit returns NaN coefficients or raises
\* LinAlgError, depending on the LAPACK build.
trend_line(y) ==
    LET x_numeric == arange(Len(y))
        has_nan == \E i \in 1..Len(y) : isna(y[i])
    IN  IF Len(y) > 2
        THEN IF has_nan
             THEN {[status |-> "nan", x |-> x_numeric, y |-> y,
                    line |-> [i \in 1..Len(y) |-> NaN]],
                   [status |-> "LinAlgError", x |-> x_numeric, y |-> y, line |-> <<>>]}
             ELSE {[status |-> "fitted", x |-> x_numeric, y |-> y,
                    line |-> poly1d(polyfit(x_numeric, y), x_numeric)]}
        ELSE {[status |-> "omitted", x |-> x_numeric, y |-> y, line |-> <<>>]}

\* a comparison that divides by the current month instead of the previous
month_comparison_by_current(sorted_df) ==
    LET Rs == Column(sorted_df, "Rs")
        Previous == [i \in 1..Len(Rs) |-> IF i = 1 THEN NaN ELSE Rs[i - 1]]
        Change == [i \in 1..Len(Rs) |-> FSub(Rs[i], Previous[i])]
    IN  [i \in 1..Len(Rs) |->
            [Month |-> sorted_df[i].Month,
             Rs |-> Rs[i],
             Previous_Month |-> Previous[i],
             Change |-> Change[i],
             Pct_Change |-> FMul(FDiv(Change[i], Rs[i]), F(100))]]

\* lines 540-543
month_comparison_of(sorted_df) ==
    LET Rs == Column(sorted_df, "Rs")
        Previous == [i \in 1..Len(Rs) |-> IF i = 1 THEN NaN ELSE Rs[i - 1]]
        Change == [i \in 1..Len(Rs) |-> FSub(Rs[i], Previous[i])]
    IN  [i \in 1..Len(Rs) |->
            [Month |-> sorted_df[i].Month,
             Rs |-> Rs[i],
             Previous_Month |-> Previous[i],
             Change |-> Change[i],
             Pct_Change |-> FMul(FDiv(Change[i], Previous[i]), F(100))]]

\* lines 584-588
display_of(comparison) ==
    [i \in 1..Len(comparison) |->
        [Month |-> comparison[i].Month,
         Rs |-> format_or_na(comparison[i].Rs, ""),
         Previous_Month |-> format_or_na(comparison[i].Previous_Month, ""),
         Change |-> format_or_na(comparison[i].Change, ""),
         Pct_Change |-> format_or_na(comparison[i].Pct_Change, "%")]]

(***************************************************************************)
(* Tab 2: percentage change summary; tab 3: statistics                     *)
(***************************************************************************)
\* a <= b on floats that are not NaN
FLeq(a, b) ==
    IF a.k = "inf" THEN a.n < 0 \/ (b.k = "inf" /\ b.n > 0)
    ELSE IF b.k = "inf" THEN b.n > 0
    ELSE a.n * b.d <= b.n * a.d

\* the orders sort_values("Average % Change", ascending=False) can return:
\* descending averages, NaN last, equal averages in any order
sort_descending(rows) ==
    {[j \in 1..Len(rows) |-> rows[f[j]]] :
        f \in {g \in [1..Len(rows) -> 1..Len(rows)] :
                 /\ \A a, b \in 1..Len(rows) : a # b => g[a] # g[b]
                 /\ \A a, b \in 1..Len(rows) : a < b =>
                       \/ isna(rows[g[b]].Average)
                       \/ /\ ~isna(rows[g[a]].Average)
                          /\ FLeq(rows[g[b]].Average, rows[g[a]].Average)}}

\* lines 391-404: the mean of each "% Change" column, sorted and formatted
pct_change_summary(pct) ==
    LET avg == [c \in 1..Len(pct.columns) |->
                   [Particular |-> pct.columns[c],
                    Average |-> Series_mean([i \in 1..Len(pct.rows) |->
                                                pct.rows[i].cells[pct.columns[c]]])]]
    IN  {[j \in 1..Len(s) |->
             [Particular |-> s[j].Particular,
              Average |-> format_or_na(s[j].Average, "%")]] : s \in sort_descending(avg)}

\* the values of a series that are not NaN
dropna(s) == SelectSeq(s, LAMBDA x : ~isna(x))

\* the values of a NaN-free series in ascending order
RECURSIVE ascending(_)
ascending(s) ==
    IF s = <<>> THEN <<>>
    ELSE LET i == CHOOSE j \in 1..Len(s) : \A h \in 1..Len(s) : FLeq(s[j], s[h])
         IN  <<s[i]>> \o ascending(SubSeq(s, 1, i - 1) \o SubSeq(s, i + 1, Len(s)))

Series_min(s) == IF dropna(s) = <<>> THEN NaN ELSE ascending(dropna(s))[1]

Series_max(s) == IF dropna(s) = <<>> THEN NaN ELSE ascending(dropna(s))[Len(dropna(s))]

Series_median(s) ==
    LET v == ascending(dropna(s))
        n == Len(v)
    IN  IF n = 0 THEN NaN
        ELSE IF n % 2 = 1 THEN v[(n + 1) \div 2]
        ELSE FDiv(FAdd(v[n \div 2], v[n \div 2 + 1]), F(2))

\* the square of Series.std(): the sample variance (ddof=1), NaN below 2 values
Series_var(s) ==
    LET v == dropna(s)
        mean == Series_mean(v)
    IN  IF Len(v) < 2 THEN NaN
        ELSE FDiv(FSum([i \in 1..Len(v) |-> FMul(FSub(v[i], mean), FSub(v[i], mean))]),
                  F(Len(v) - 1))

\* the largest integer whose square is at most x
RECURSIVE ISqrt(_)
ISqrt(x) ==
    IF x < 2 THEN x
    ELSE LET s == 2 * ISqrt(x \div 4)
         IN  IF (s + 1) * (s + 1) <= x THEN s + 1 ELSE s

\* f"{std:,.2f}" for a standard deviation given by its square
format_sqrt_2f(var) ==
    IF isna(var) THEN [text |-> "nan", cents |-> 0, suffix |-> ""]
    ELSE [text |-> "fixed", cents |-> (ISqrt((40000 * var.n) \div var.d) + 1) \div 2,
          suffix |-> ""]

NoStats == [Count |-> 0, Mean |-> Text(""), Median |-> Text(""), Min |-> Text(""),
            Max |-> Text(""), Std_Dev |-> Text("")]

\* lines 486-496: the statistics table of the selected particular
statistics(s) ==
    [Count |-> Len(s),
     Mean |-> format_2f(Series_mean(s), ""),
     Median |-> format_2f(Series_median(s), ""),
     Min |-> format_2f(Series_min(s), ""),
     Max |-> format_2f(Series_max(s), ""),
     Std_Dev |-> format_sqrt_2f(Series_var(s))]

(***************************************************************************)
(* Inputs                                                                  *)
(***************************************************************************)
\* workbooks for the normaliser: every kind of Rs cell
Alphabet == {"-", "5", "a"}

LoadCells ==
    {NumCell(0), NumCell(7), BlankCell}
        \cup {StrCell(s) : s \in SeqsUpTo(Alphabet, MaxStrLen)}

LoadExamples ==
    {<<RawRow("A", "Jan", StrCell(DASH)), RawRow("A", "Mar", StrCell(<<"5">>)),
       RawRow("B", "Jan", StrCell(<<"a", "-">>)), RawRow("B", "Feb", NumCell(7))>>}

LoadRows == {RawRow("A", "Jan", c) : c \in LoadCells}

\* workbooks for the overview tab
OverviewCells == {NumCell(100), NumCell(50), StrCell(DASH)}

OverviewExamples ==
    {<<RawRow("A", "Jan", NumCell(100)), RawRow("A", "Feb", NumCell(200)),
       RawRow("B", "Jan", NumCell(50))>>,
     <<RawRow("A", "Jan", NumCell(100)), RawRow("B", "Jan", StrCell(DASH)),
       RawRow("B", "Feb", NumCell(50))>>}

OverviewRows ==
    {RawRow(p, m, c) : p \in {"A", "B"}, m \in {"Jan", "Feb"}, c \in OverviewCells}

\* workbooks for the trend tab
TrendRows ==
    {RawRow(p, m, c) : p \in {"A", "B"}, m \in {"Jan", "Feb"},
                       c \in {NumCell(0), NumCell(10), StrCell(DASH)}}

\* workbooks for the detail tab
DetailExamples ==
    {<<RawRow("A", "Jan", NumCell(100)), RawRow("A", "Feb", NumCell(150)),
       RawRow("A", "Mar", NumCell(75))>>,
     <<RawRow("A", "Jan", NumCell(0)), RawRow("A", "Feb", NumCell(10))>>,
     <<RawRow("A", "Jan", NumCell(10)), RawRow("A", "Feb", NumCell(30)),
       RawRow("B", "Feb", NumCell(10)), RawRow("A", "Mar", NumCell(10))>>}

DetailRows ==
    {RawRow("A", m, c) : m \in {"Jan", "Feb", "Mar"},
                         c \in {NumCell(0), NumCell(10), NumCell(30), StrCell(DASH)}}
        \cup {RawRow("B", "Feb", NumCell(10))}

(***************************************************************************)
(* The script: one run per user interaction, top to bottom                 *)
(***************************************************************************)
NoTrend == [status |-> "none", x |-> <<>>, y |-> <<>>, line |-> <<>>]

NoPivot == [columns |-> <<>>, rows |-> <<>>]

\* the script's namespace before the first line of a run
FreshRun ==
    /\ df = <<>>
    /\ raised = ""
    /\ filtered_df = <<>>
    /\ metrics = NoMetrics
    /\ monthly_summary = <<>>
    /\ pivot_df = NoPivot
    /\ pct_change_df = NoPivot
    /\ trend = NoTrend
    /\ month_comparison = <<>>
    /\ display_month_comparison = <<>>
    /\ summary_df = <<>>
    /\ stats_df = NoStats

Rerun ==
    /\ pc' = "start"
    /\ df' = <<>>
    /\ raised' = ""
    /\ filtered_df' = <<>>
    /\ metrics' = NoMetrics
    /\ monthly_summary' = <<>>
    /\ pivot_df' = NoPivot
    /\ pct_change_df' = NoPivot
    /\ trend' = NoTrend
    /\ month_comparison' = <<>>
    /\ display_month_comparison' = <<>>
    /\ summary_df' = <<>>
    /\ stats_df' = NoStats

Init ==
    /\ raw \in SeqsUpTo(OverviewRows, MaxRows) \cup OverviewExamples
    /\ cache = <<>>
    /\ pc = "start"
    /\ selected_particulars = {ALL}
    /\ selected_months = {ALL}
    /\ trend_particulars = {}
    /\ selected_particular = ""
    /\ FreshRun

\* df = load_data(), memoised by st.cache_data
LoadData ==
    /\ pc = "start"
    /\ cache' = IF cache = <<>> THEN <<load_data(raw)>> ELSE cache
    /\ df' = cache'[1]
    /\ pc' = "filter"
    /\ UNCHANGED <<raw, raised, selected_particulars, selected_months, filtered_df,
                   metrics, monthly_summary, trend_particulars, pivot_df,
                   pct_change_df, selected_particular, trend, month_comparison,
                   display_month_comparison, summary_df, stats_df>>

\* st.sidebar.multiselect: the user adds or removes one option
toggle(selection, option) ==
    IF option \in selection THEN selection \ {option} ELSE selection \cup {option}

SelectParticulars ==
    /\ pc \in {"metrics", "summary", "halt"}
    /\ \E option \in all_particulars(df) :
          selected_particulars' = toggle(selected_particulars, option)
    /\ Rerun
    /\ UNCHANGED <<raw, cache, selected_months, trend_particulars, selected_particular>>

SelectMonths ==
    /\ pc \in {"metrics", "summary", "halt"}
    /\ \E option \in all_months(df) :
          selected_months' = toggle(selected_months, option)
    /\ Rerun
    /\ UNCHANGED <<raw, cache, selected_particulars, trend_particulars, selected_particular>>

\* lines 142-146 rebinding filtered_df to the filtered frame and df to it too,
\* as filtering the base table itself would
filter_frames_in_place(tbl, particulars, months) ==
    [df |-> apply_filters(tbl, particulars, months),
     filtered_df |-> apply_filters(tbl, particulars, months)]

\* lines 142-146: filtered_df starts as df.copy() and every filter rebinds
\* filtered_df to a new frame; the frames the two names hold afterwards
filter_frames(tbl, particulars, months) ==
    [df |-> tbl,
     filtered_df |-> apply_filters(tbl, particulars, months)]

ApplyFilters ==
    /\ pc = "filter"
    /\ LET frames == filter_frames(df, selected_particulars, selected_months)
       IN  /\ df' = frames.df
           /\ filtered_df' = frames.filtered_df
    /\ pc' = "metrics"
    /\ UNCHANGED <<raw, cache, raised, selected_particulars, selected_months,
                   metrics, monthly_summary, trend_particulars, pivot_df,
                   pct_change_df, selected_particular, trend, month_comparison,
                   display_month_comparison, summary_df, stats_df>>

KeyMetrics ==
    /\ pc = "metrics"
    /\ metrics' = key_metrics(filtered_df)
    /\ pc' = "summary"
    /\ UNCHANGED <<raw, cache, df, raised, selected_particulars, selected_months,
                   filtered_df, monthly_summary, trend_particulars, pivot_df,
                   pct_change_df, selected_particular, trend, month_comparison,
                   display_month_comparison, summary_df, stats_df>>

\* lines 249-250: the groupby frame has no Month_Num column, so sort_values
\* raises and the run stops before the second and third tab
MonthlySummary ==
    /\ pc = "summary"
    /\ monthly_summary' = groupby_agg(filtered_df)
    /\ IF sort_values_raises(summary_columns, "Month_Num")
       THEN raised' = "KeyError" /\ pc' = "halt"
       ELSE raised' = raised /\ pc' = "tab2"
    /\ UNCHANGED <<raw, cache, df, selected_particulars, selected_months,
                   filtered_df, metrics, trend_particulars, pivot_df,
                   pct_change_df, selected_particular, trend, month_comparison,
                   display_month_comparison, summary_df, stats_df>>

Next ==
    \/ LoadData
    \/ SelectParticulars
    \/ SelectMonths
    \/ ApplyFilters
    \/ KeyMetrics
    \/ MonthlySummary

Spec == Init /\ [][Next]_vars

\* the normaliser alone, on workbooks with every kind of cell
InitLoad ==
    /\ raw \in SeqsUpTo(LoadRows, MaxRows) \cup LoadExamples
    /\ cache = <<>>
    /\ pc = "start"
    /\ selected_particulars = {ALL}
    /\ selected_months = {ALL}
    /\ trend_particulars = {}
    /\ selected_particular = ""
    /\ FreshRun

NextLoad == LoadData

SpecLoad == InitLoad /\ [][NextLoad]_vars

\* the normaliser alone, on workbooks whose rows differ in their month
MonthRows == {RawRow("A", m, NumCell(7)) : m \in {"Jan", "Feb", "Mar"}}

InitMonths ==
    /\ raw \in SeqsUpTo(MonthRows, MaxMonthRows)
    /\ cache = <<>>
    /\ pc = "start"
    /\ selected_particulars = {ALL}
    /\ selected_months = {ALL}
    /\ trend_particulars = {}
    /\ selected_particular = ""
    /\ FreshRun

NextMonths == LoadData

SpecMonths == InitMonths /\ [][NextMonths]_vars

(***************************************************************************)
(* The second tab as a function of the loaded table and its multiselect    *)
(***************************************************************************)
DefaultTrendCount == 5

\* sorted(df['Particulars'].unique().tolist())[:5]
default_trend_particulars(tbl) ==
    LET options == sorted(Range(Column(tbl, "Particulars")))
    IN  {options[i] : i \in 1..(IF Len(options) < DefaultTrendCount
                               THEN Len(options) ELSE DefaultTrendCount)}

\* st.selectbox: the first option, None ("") when there is none
default_particular(tbl) ==
    LET options == sorted(Range(Column(tbl, "Particulars")))
    IN  IF options = <<>> THEN "" ELSE options[1]

Loaded ==
    /\ cache = <<load_data(raw)>>
    /\ df = cache[1]
    /\ raised = ""
    /\ selected_particulars = {ALL}
    /\ selected_months = {ALL}
    /\ filtered_df = <<>>
    /\ metrics = NoMetrics
    /\ monthly_summary = <<>>
    /\ pivot_df = NoPivot
    /\ pct_change_df = NoPivot
    /\ trend = NoTrend
    /\ month_comparison = <<>>
    /\ display_month_comparison = <<>>
    /\ summary_df = <<>>
    /\ stats_df = NoStats
    /\ trend_particulars = default_trend_particulars(df)
    /\ selected_particular = default_particular(df)

InitTrend ==
    /\ raw \in SeqsUpTo(TrendRows, MaxTrendRows)
    /\ pc = "tab2"
    /\ Loaded

SelectTrendParticulars ==
    /\ pc = "tab3"
    /\ \E option \in Range(Column(df, "Particulars")) :
          trend_particulars' = toggle(trend_particulars, option)
    /\ pc' = "tab2"
    /\ pivot_df' = NoPivot
    /\ pct_change_df' = NoPivot
    /\ summary_df' = <<>>
    /\ UNCHANGED <<raw, cache, df, raised, selected_particulars, selected_months,
                   filtered_df, metrics, monthly_summary, selected_particular,
                   trend, month_comparison, display_month_comparison, stats_df>>

\* lines 277-406
TrendAnalysis ==
    /\ pc = "tab2"
    /\ IF trend_particulars # {}
       THEN /\ pivot_df' = trend_pivot(df, trend_particulars)
            /\ \E pad \in BOOLEAN :
                  pct_change_df' = pct_change_frame(pivot_df', trend_particulars, pad)
            /\ summary_df' \in pct_change_summary(pct_change_df')
       ELSE UNCHANGED <<pivot_df, pct_change_df, summary_df>>
    /\ pc' = "tab3"
    /\ UNCHANGED <<raw, cache, df, raised, selected_particulars, selected_months,
                   filtered_df, metrics, monthly_summary, trend_particulars,
                   selected_particular, trend, month_comparison,
                   display_month_comparison, stats_df>>

NextTrend ==
    \/ SelectTrendParticulars
    \/ TrendAnalysis

SpecTrend == InitTrend /\ [][NextTrend]_vars

(***************************************************************************)
(* The third tab as a function of the loaded table and its selectbox       *)
(***************************************************************************)
InitDetail ==
    /\ raw \in SeqsUpTo(DetailRows, MaxDetailRows) \cup DetailExamples
    /\ pc = "tab3"
    /\ Loaded

SelectParticular ==
    /\ pc = "halt"
    /\ \E option \in Range(Column(df, "Particulars")) \ {selected_particular} :
          selected_particular' = option
    /\ pc' = "tab3"
    /\ raised' = ""
    /\ trend' = NoTrend
    /\ month_comparison' = <<>>
    /\ display_month_comparison' = <<>>
    /\ stats_df' = NoStats
    /\ UNCHANGED <<raw, cache, df, selected_particulars, selected_months,
                   filtered_df, metrics, monthly_summary, trend_particulars,
                   pivot_df, pct_change_df, summary_df>>

\* lines 417-588; an exception of polyfit ends the run before the comparison
DetailedAnalysis ==
    /\ pc = "tab3"
    /\ IF selected_particular # ""
       THEN \E sorted_df \in sort_values(isin(df, "Particulars", {selected_particular}),
                                         "Month_Num") :
            \E fit \in trend_line(Column(sorted_df, "Rs")) :
               /\ trend' = fit
               /\ IF fit.status = "LinAlgError"
                  THEN /\ raised' = "LinAlgError"
                       /\ UNCHANGED <<stats_df, month_comparison, display_month_comparison>>
                  ELSE /\ raised' = raised
                       /\ stats_df' = statistics(Column(sorted_df, "Rs"))
                       /\ month_comparison' = month_comparison_of(sorted_df)
                       /\ display_month_comparison' = display_of(month_comparison')
       ELSE UNCHANGED <<raised, trend, stats_df, month_comparison,
                        display_month_comparison>>
    /\ pc' = "halt"
    /\ UNCHANGED <<raw, cache, df, selected_particulars, selected_months,
                   filtered_df, metrics, monthly_summary, trend_particulars,
                   pivot_df, pct_change_df, selected_particular, summary_df>>

NextDetail ==
    \/ SelectParticular
    \/ DetailedAnalysis

SpecDetail == InitDetail /\ [][NextDetail]_vars

(***************************************************************************)
(* Properties of the filter (Spec)                                         *)
(***************************************************************************)
Filtered == pc \in {"metrics", "summary", "halt"}

\* a selection that is the sentinel alone, or concrete labels alone
Pure(selection) == selection = {ALL} \/ ALL \notin selection

Selected(selection, label) == selection = {ALL} \/ label \in selection

\* C1: for a selection that is "All" or a set of concrete labels in each
\* dimension, the filtered view is exactly the rows of the table, in table
\* order, whose Particulars is selected and whose Month is selected.
FilterContract ==
    (Filtered /\ Pure(selected_particulars) /\ Pure(selected_months)) =>
        /\ \A i \in 1..Len(filtered_df) :
              /\ Selected(selected_particulars, filtered_df[i].Particulars)
              /\ Selected(selected_months, filtered_df[i].Month)
        /\ filtered_df =
              SelectSeq(df, LAMBDA r : /\ Selected(selected_particulars, r.Particulars)
                                       /\ Selected(selected_months, r.Month))

\* particulars "All", months {"Jan"}: the Jan rows of both particulars
FilterContractWitness ==
    /\ Filtered
    /\ selected_particulars = {ALL}
    /\ selected_months = {"Jan"}
    /\ Len(df) = 3
    /\ Len(filtered_df) = 2
    /\ Range(Column(filtered_df, "Particulars")) = {"A", "B"}

\* C2: an empty Particulars selection yields a view with zero rows.
EmptySelectionIsEmpty ==
    (Filtered /\ selected_particulars = {}) => filtered_df = <<>>

EmptySelectionWitness ==
    /\ Filtered
    /\ selected_particulars = {}
    /\ selected_months = {ALL}
    /\ Len(df) > 0
    /\ filtered_df = <<>>

\* C3: when a selection holds "All" together with concrete labels, "All" is
\* dropped: the view holds only rows of the concrete labels.
MixedSelectionDropsAll ==
    Filtered =>
        /\ (ALL \in selected_particulars /\ selected_particulars # {ALL}) =>
              \A i \in 1..Len(filtered_df) :
                 filtered_df[i].Particulars \in selected_particulars \ {ALL}
        /\ (ALL \in selected_months /\ selected_months # {ALL}) =>
              \A i \in 1..Len(filtered_df) :
                 filtered_df[i].Month \in selected_months \ {ALL}

(***************************************************************************)
(* Properties of the aggregates (Spec)                                     *)
(***************************************************************************)
RowsOfMonth(tbl, m) == {i \in 1..Len(tbl) : tbl[i].Month = m}

NonMissing(tbl, I) == {i \in I : ~isna(tbl[i].Rs)}

RECURSIVE SumOver(_, _)
SumOver(tbl, I) ==
    IF I = {} THEN F(0)
    ELSE LET i == CHOOSE j \in I : TRUE
         IN  FAdd(tbl[i].Rs, SumOver(tbl, I \ {i}))

RankOf(m) == (CHOOSE i \in 1..Len(df) : df[i].Month = m) - 1

\* C6: the monthly summary is computed without raising, has one row per
\* month of the view in ascending rank, with the sum, mean and count of Rs.
MonthlySummaryContract ==
    pc = "halt" =>
        /\ raised = ""
        /\ Range(Column(monthly_summary, "Month")) = Range(Column(filtered_df, "Month"))
        /\ Len(monthly_summary) = Cardinality(Range(Column(filtered_df, "Month")))
        /\ \A g \in 1..Len(monthly_summary) :
              LET I == NonMissing(filtered_df, RowsOfMonth(filtered_df, monthly_summary[g].Month))
              IN  /\ monthly_summary[g].count = Cardinality(I)
                  /\ I # {} => /\ monthly_summary[g].sum = SumOver(filtered_df, I)
                               /\ monthly_summary[g].mean =
                                     FDiv(SumOver(filtered_df, I), F(Cardinality(I)))
        /\ \A g, h \in 1..Len(monthly_summary) :
              g < h => df[RankOf(monthly_summary[g].Month) + 1].Month_Num
                          < df[RankOf(monthly_summary[h].Month) + 1].Month_Num

\* C7: missing Rs values are skipped, never counted as zero: a view or a
\* month whose values are all missing reports no sum of 0 and no mean.
AggregatesSkipMissing ==
    /\ pc \in {"summary", "halt"} =>
          LET I == NonMissing(filtered_df, 1..Len(filtered_df))
          IN  /\ (filtered_df # <<>> /\ I = {}) =>
                    /\ metrics.total_amount = Text("N/A")
                    /\ metrics.average_amount = Text("N/A")
              /\ I # {} =>
                    /\ metrics.sum = SumOver(filtered_df, I)
                    /\ metrics.mean = FDiv(SumOver(filtered_df, I), F(Cardinality(I)))
    /\ pc = "halt" =>
          \A g \in 1..Len(monthly_summary) :
             LET I == NonMissing(filtered_df, RowsOfMonth(filtered_df, monthly_summary[g].Month))
             IN  /\ monthly_summary[g].count = Cardinality(I)
                 /\ I = {} => monthly_summary[g].sum # F(0)

(***************************************************************************)
(* Properties of the normaliser (SpecLoad)                                 *)
(***************************************************************************)
\* C10: normalising never raises; a '-' cell and every other cell that is
\* not a number become missing, never zero; a parseable cell keeps its value.
NormaliseContract ==
    pc # "start" =>
        /\ raised = ""
        /\ Len(df) = Len(raw)
        /\ \A i \in 1..Len(raw) :
              LET c == raw[i].Rs
              IN  /\ (c.t = "str" /\ c.s = DASH) => isna(df[i].Rs)
                  /\ (c.t = "str" /\ ~Parseable(c.s)) => isna(df[i].Rs)
                  /\ c.t = "nan" => isna(df[i].Rs)
                  /\ c.t = "num" => df[i].Rs = F(c.v)
                  /\ (c.t = "str" /\ Parseable(c.s)) =>
                        /\ ~isna(df[i].Rs)
                        /\ df[i].Rs.d = 1
                        /\ Abs(df[i].Rs.n) = DigitsVal(SelectSeq(c.s, LAMBDA ch : ch \in Digits))
                        /\ (df[i].Rs.n < 0 => c.s[1] = "-")

\* a '-' cell, an unparseable text, a numeric text and a number, normalised
NormaliseWitness ==
    /\ pc # "start"
    /\ Len(raw) = 4
    /\ raw[1].Rs = StrCell(DASH) /\ isna(df[1].Rs)
    /\ raw[2].Rs = StrCell(<<"5">>) /\ df[2].Rs = F(5)
    /\ raw[3].Rs = StrCell(<<"a", "-">>) /\ isna(df[3].Rs)
    /\ raw[4].Rs = NumCell(7) /\ df[4].Rs = F(7)

(***************************************************************************)
(* Properties of the trend pivot (SpecTrend)                               *)
(***************************************************************************)
RowsOf(tbl, m, p) == {i \in 1..Len(tbl) : tbl[i].Month = m /\ tbl[i].Particulars = p}

\* C8: each pivot cell is the sum of Rs over the rows of its month and
\* particular, a combination without rows is missing (not zero), and the
\* pivot's rows are in ascending month rank.
TrendPivotContract ==
    (pc = "tab3" /\ trend_particulars # {}) =>
        /\ Range(pivot_df.columns) = trend_particulars
        /\ Len(pivot_df.columns) = Cardinality(trend_particulars)
        /\ Range(Column(pivot_df.rows, "Month")) =
              {df[i].Month : i \in {j \in 1..Len(df) : df[j].Particulars \in trend_particulars}}
        /\ \A g, h \in 1..Len(pivot_df.rows) :
              g < h => RankOf(pivot_df.rows[g].Month) < RankOf(pivot_df.rows[h].Month)
        /\ \A g \in 1..Len(pivot_df.rows) : \A p \in trend_particulars :
              LET I == RowsOf(df, pivot_df.rows[g].Month, p)
                  cell == pivot_df.rows[g].cells[p]
              IN  IF I = {} THEN isna(cell)
                  ELSE cell = SumOver(df, NonMissing(df, I))

\* a pivot of two months in first-seen order with a missing and a summed cell
TrendPivotWitness ==
    /\ pc = "tab3"
    /\ trend_particulars = {"A", "B"}
    /\ Column(pivot_df.rows, "Month") = <<"Jan", "Feb">>
    /\ isna(pivot_df.rows[1].cells["B"])
    /\ pivot_df.rows[1].cells["A"] = F(20)
    /\ pivot_df.rows[2].cells["B"] = F(10)

(***************************************************************************)
(* Properties of the detail tab (SpecDetail)                               *)
(***************************************************************************)
ParticularRows == {i \in 1..Len(df) : df[i].Particulars = selected_particular}

Compared == pc = "halt" /\ selected_particular # "" /\ raised = ""

\* the number of rows of month_comparison with Month m and Rs v
CountIn(tbl, I, m, v) == Cardinality({i \in I : tbl[i].Month = m /\ tbl[i].Rs = v})

\* C4: the month-to-month comparison lists the particular's rows in
\* ascending month rank; its first Change and % Change are missing; from the
\* second row on, Change is Rs minus the previous Rs and % Change is Change
\* over the previous Rs times 100 (previous Rs not zero), missing when either
\* Rs is missing.  [100, 150, 75] gives [-, 50, -75] and [-, 50, -50].
MonthComparisonContract ==
    Compared =>
        LET mc == month_comparison
        IN  /\ Len(mc) = Cardinality(ParticularRows)
            /\ \A i \in 1..Len(mc) :
                  CountIn(mc, 1..Len(mc), mc[i].Month, mc[i].Rs)
                     = CountIn(df, ParticularRows, mc[i].Month, mc[i].Rs)
            /\ \A i, j \in 1..Len(mc) : i < j => RankOf(mc[i].Month) <= RankOf(mc[j].Month)
            /\ Len(mc) > 0 => isna(mc[1].Change) /\ isna(mc[1].Pct_Change)
            /\ \A i \in 2..Len(mc) :
                  LET cur == mc[i].Rs
                      prev == mc[i - 1].Rs
                  IN  IF isna(cur) \/ isna(prev)
                      THEN isna(mc[i].Change) /\ isna(mc[i].Pct_Change)
                      ELSE /\ mc[i].Change = F(cur.n - prev.n)
                           /\ prev.n # 0 =>
                                 /\ mc[i].Pct_Change.k = "num"
                                 /\ mc[i].Pct_Change.n * prev.n =
                                       (cur.n - prev.n) * 100 * mc[i].Pct_Change.d
            /\ Column(mc, "Rs") = <<F(100), F(150), F(75)>> =>
                  /\ Column(mc, "Change") = <<NaN, F(50), F(-75)>>
                  /\ Column(mc, "Pct_Change") = <<NaN, F(50), F(-50)>>

\* the series [100, 150, 75], compared
MonthComparisonWitness ==
    /\ Compared
    /\ Column(month_comparison, "Rs") = <<F(100), F(150), F(75)>>
    /\ month_comparison[3].Change = F(-75)
    /\ month_comparison[3].Pct_Change = F(-50)

\* C5: when the previous Rs is zero the percentage change is missing and is
\* displayed as "N/A".
ZeroPreviousIsMissing ==
    Compared =>
        \A i \in 2..Len(month_comparison) :
           month_comparison[i].Previous_Month = F(0) =>
              /\ isna(month_comparison[i].Pct_Change)
              /\ display_month_comparison[i].Pct_Change = Text("N/A")

\* C9: the trend is fitted on the non-null points of the series, only when
\* there are at least 3 of them; otherwise it is omitted; nothing is raised.
TrendNeedsThreePoints ==
    (pc = "halt" /\ selected_particular # "") =>
        LET k == Cardinality(NonMissing(df, ParticularRows))
        IN  /\ raised = ""
            /\ k < 3 => trend.status = "omitted"
            /\ k >= 3 =>
                  /\ trend.status = "fitted"
                  /\ Len(trend.y) = k
                  /\ \A i \in 1..Len(trend.y) : ~isna(trend.y[i])

(***************************************************************************)
(* Properties of the month ordering (SpecMonths)                           *)
(***************************************************************************)
\* the row of the first occurrence of the month of row i
FirstSeen(i) == CHOOSE j \in 1..i : /\ raw[j].Month = raw[i].Month
                                    /\ \A h \in 1..(j - 1) : raw[h].Month # raw[i].Month

\* C11: a month's rank is the number of distinct months first seen before
\* it (0, 1, 2, ... in first-seen order, a repeated month keeping its rank)
\* and every row's Month_Num is the rank of its month; the months
\* Jan, Mar, Jan, Feb get the ranks 0, 1, 0, 2.
MonthRanksFirstSeen ==
    pc # "start" =>
        /\ Len(df) = Len(raw)
        /\ \A i \in 1..Len(raw) :
              /\ df[i].Month = raw[i].Month
              /\ df[i].Month_Num =
                    Cardinality({raw[h].Month : h \in 1..(FirstSeen(i) - 1)})
        /\ \A i, j \in 1..Len(raw) :
              /\ raw[i].Month = raw[j].Month => df[i].Month_Num = df[j].Month_Num
              /\ FirstSeen(i) < FirstSeen(j) => df[i].Month_Num < df[j].Month_Num
        /\ {df[i].Month_Num : i \in 1..Len(df)} =
              0..(Cardinality(Range(Column(raw, "Month"))) - 1)
        /\ Column(raw, "Month") = <<"Jan", "Mar", "Jan", "Feb">> =>
              Column(df, "Month_Num") = <<0, 1, 0, 2>>

\* the months Jan, Mar, Jan, Feb, ranked
MonthRanksWitness ==
    /\ pc # "start"
    /\ Column(raw, "Month") = <<"Jan", "Mar", "Jan", "Feb">>
    /\ Column(df, "Month_Num") = <<0, 1, 0, 2>>

(***************************************************************************)
(* The whole session: the filters of the sidebar and the widgets of the    *)
(* second and third tab, changed in any order                              *)
(***************************************************************************)
MaxSessionRows == 2

SessionRows ==
    {RawRow("A", "Jan", NumCell(10)), RawRow("A", "Feb", NumCell(10)),
     RawRow("B", "Jan", NumCell(10)), RawRow("B", "Feb", StrCell(DASH))}

InitSession ==
    /\ raw \in SeqsUpTo(SessionRows, MaxSessionRows)
    /\ cache = <<>>
    /\ pc = "start"
    /\ selected_particulars = {ALL}
    /\ selected_months = {ALL}
    /\ trend_particulars = {}
    /\ selected_particular = ""
    /\ FreshRun

NextSession ==
    \/ Next
    \/ NextTrend
    \/ NextDetail

SpecSession == InitSession /\ [][NextSession]_vars

\* C13: the memoized table and the base table df of every run are the table
\* load_data built from the workbook, rows, columns and values, whatever
\* filters, trend particulars and detail particular have been chosen and
\* whatever frames the run has derived from it.
BaseTableNeverMutated ==
    /\ cache # <<>> => cache = <<load_data(raw)>>
    /\ pc # "start" => df = load_data(raw)

\* a run that filtered the base table down, after the user had changed the
\* detail particular and the trend particulars
BaseTableWitness ==
    /\ pc = "halt"
    /\ ALL \notin selected_particulars
    /\ Len(filtered_df) < Len(df)
    /\ selected_particular # ""
    /\ trend_particulars # {}
    /\ df = load_data(raw)

(***************************************************************************)
(* Properties of the display formatting (SpecDetail)                       *)
(***************************************************************************)
\* C12: every missing value is displayed as "N/A": the statistics of a
\* particular without values (mean, median, min, max) and the standard
\* deviation of fewer than two values, and every missing cell of the
\* month-to-month comparison.
MissingShowsNA ==
    Compared =>
        LET k == Cardinality(NonMissing(df, ParticularRows))
        IN  /\ k = 0 => /\ stats_df.Mean = Text("N/A")
                        /\ stats_df.Median = Text("N/A")
                        /\ stats_df.Min = Text("N/A")
                        /\ stats_df.Max = Text("N/A")
            /\ k < 2 => stats_df.Std_Dev = Text("N/A")
            /\ \A i \in 1..Len(month_comparison) :
                  /\ isna(month_comparison[i].Rs) =>
                        display_month_comparison[i].Rs = Text("N/A")
                  /\ isna(month_comparison[i].Previous_Month) =>
                        display_month_comparison[i].Previous_Month = Text("N/A")
                  /\ isna(month_comparison[i].Change) =>
                        display_month_comparison[i].Change = Text("N/A")
                  /\ isna(month_comparison[i].Pct_Change) =>
                        display_month_comparison[i].Pct_Change = Text("N/A")

====
